---------------------------- MODULE Spec2Model ----------------------------
(***************************************************************************)
(* A model of jokudevs-ionic-angular-dynamic-tabs:                         *)
(*   - generateRoutes / generateChildrenRoutes / createComponentRoute      *)
(*     (src/src/lib/utils/route.utils.ts),                                 *)
(*   - isLazyComponent (src/src/lib/models/tab.interface.ts),              *)
(*   - TabBarComponent (src/unnamed/part_000).                             *)
(*                                                                         *)
(* JavaScript strings are sequences of one-character strings, so that      *)
(* String.prototype.replace and camelCase are computed, not assumed.       *)
(* JavaScript values are records with a "typeof" field; a thrown exception *)
(* and a returned value are told apart by a "status" field.                *)
(***************************************************************************)
EXTENDS Integers, Sequences, FiniteSets, TLC

(***************************************************************************)
(* Bounds of the model.                                                    *)
(***************************************************************************)
MaxTabs == 2
MaxLoads == 2
MaxActivations == 2

(***************************************************************************)
(* Strings.                                                                *)
(***************************************************************************)
EmptyString == << >>

TABS_PREFIX == <<"/", "t", "a", "b", "s", "/">>

\* s has an occurrence of pat starting at (1-based) position i.
OccursAt(s, pat, i) ==
  /\ i >= 1
  /\ i + Len(pat) - 1 <= Len(s)
  /\ SubSeq(s, i, i + Len(pat) - 1) = pat

\* String.prototype.indexOf, 1-based; 0 when pat does not occur.
IndexOf(s, pat) ==
  IF \E i \in 1..Len(s) : OccursAt(s, pat, i)
  THEN CHOOSE i \in 1..Len(s) :
         /\ OccursAt(s, pat, i)
         /\ \A j \in 1..(i - 1) : ~OccursAt(s, pat, j)
  ELSE 0

\* A plausible slip: String.prototype.replaceAll (every occurrence, left to
\* right, non-overlapping).
RECURSIVE replaceAllOccurrences(_, _, _)
replaceAllOccurrences(s, pat, rep) ==
  LET i == IndexOf(s, pat) IN
  IF i = 0 \/ Len(pat) = 0
  THEN s
  ELSE SubSeq(s, 1, i - 1) \o rep
         \o replaceAllOccurrences(SubSeq(s, i + Len(pat), Len(s)), pat, rep)

\* String.prototype.replace(pat, rep) with a string pattern: only the first
\* occurrence is replaced; rep holds no "$" pattern here.
replace(s, pat, rep) ==
  LET i == IndexOf(s, pat) IN
  IF i = 0
  THEN s
  ELSE SubSeq(s, 1, i - 1) \o rep \o SubSeq(s, i + Len(pat), Len(s))

(***************************************************************************)
(* camelCase of the change-case package, on the letters and the "-" the    *)
(* icon names use: words are split at runs of non-alphanumerics and        *)
(* between a lower-case and an upper-case letter; the first word is        *)
(* lower-cased, every later word gets an upper-case first letter and a     *)
(* lower-case rest; the words are joined with no delimiter.                *)
(***************************************************************************)
LowerLetters ==
  <<"a", "b", "c", "d", "e", "f", "g", "h", "i", "j", "k", "l", "m",
    "n", "o", "p", "q", "r", "s", "t", "u", "v", "w", "x", "y", "z">>

UpperLetters ==
  <<"A", "B", "C", "D", "E", "F", "G", "H", "I", "J", "K", "L", "M",
    "N", "O", "P", "Q", "R", "S", "T", "U", "V", "W", "X", "Y", "Z">>

IsLower(c) == \E k \in 1..Len(LowerLetters) : LowerLetters[k] = c
IsUpper(c) == \E k \in 1..Len(UpperLetters) : UpperLetters[k] = c

toLowerCase(c) ==
  IF IsUpper(c)
  THEN LowerLetters[CHOOSE k \in 1..Len(UpperLetters) : UpperLetters[k] = c]
  ELSE c

toUpperCase(c) ==
  IF IsLower(c)
  THEN UpperLetters[CHOOSE k \in 1..Len(LowerLetters) : LowerLetters[k] = c]
  ELSE c

\* A word boundary between s[i-1] and s[i] (both letters).
WordBoundary(s, i) ==
  /\ i > 1
  /\ \/ IsLower(s[i - 1]) /\ IsUpper(s[i])
     \/ /\ IsUpper(s[i - 1]) /\ IsUpper(s[i])
        /\ i + 1 <= Len(s) /\ IsLower(s[i + 1])

\* out: the result so far; pending: a delimiter was just skipped.
RECURSIVE CamelFrom(_, _, _, _)
CamelFrom(s, i, out, pending) ==
  IF i > Len(s) THEN out
  ELSE IF ~(IsLower(s[i]) \/ IsUpper(s[i]))
       THEN CamelFrom(s, i + 1, out, TRUE)
       ELSE IF out = << >>
            THEN CamelFrom(s, i + 1, <<toLowerCase(s[i])>>, FALSE)
            ELSE IF pending \/ WordBoundary(s, i)
                 THEN CamelFrom(s, i + 1, Append(out, toUpperCase(s[i])), FALSE)
                 ELSE CamelFrom(s, i + 1, Append(out, toLowerCase(s[i])), FALSE)

camelCase(s) == CamelFrom(s, 1, << >>, FALSE)

(***************************************************************************)
(* JavaScript values.                                                      *)
(***************************************************************************)
Undefined == [typeof |-> "undefined"]

IsUndefined(v) == v = Undefined

\* An object or a function: what the "in" operator accepts on its right.
IsObject(v) == v.typeof \in {"object", "function"}

\* prop in v, for v an object or a function.
HasProperty(v, prop) == prop \in v.props

\* arr[i] with JavaScript's 0-based index: undefined out of range.
ElementAt(arr, i) ==
  IF i + 1 \in 1..Len(arr) THEN arr[i + 1] ELSE Undefined

\* The outcome of a call: a returned value or a thrown exception.
Returned(v) == [status |-> "returned", value |-> v]
Thrown(e) == [status |-> "thrown", error |-> e]

\* The static property the framework's compiler attaches to a component
\* class, and the literal isLazyComponent tests for (U+0275 "cmp"; the
\* source file holds it as the bytes C3 89 C2 B5 "cmp").
NG_COMP_DEF == "ng_cmp"

(***************************************************************************)
(* View references a tab may carry (TabComponent), and what a loader may   *)
(* resolve to.                                                             *)
(***************************************************************************)
\* @Component({...}) class HomePage {}
HomePage == [typeof |-> "function", id |-> "HomePage", props |-> {NG_COMP_DEF}]
\* @Component({...}) class ProfilePage {}
ProfilePage == [typeof |-> "function", id |-> "ProfilePage", props |-> {NG_COMP_DEF}]
\* () => import('./settings.page').then(m => m.SettingsPage)
loadSettings == [typeof |-> "function", id |-> "loadSettings", props |-> {}]
\* () => import('./profile.page')
loadProfile == [typeof |-> "function", id |-> "loadProfile", props |-> {}]
\* Outside the TabComponent type: an object that is no function.
plainObject == [typeof |-> "object", id |-> "plainObject", props |-> {}]
\* Outside the TabComponent type: a compiled component definition object.
markedObject == [typeof |-> "object", id |-> "markedObject", props |-> {NG_COMP_DEF}]

Components == {HomePage, loadSettings, loadProfile, plainObject, markedObject}

\* Values a loader's promise may resolve to.
ProfileModule ==
  [typeof |-> "object", id |-> "ProfileModule", props |-> {"default"},
   default |-> ProfilePage]
SettingsModule ==
  [typeof |-> "object", id |-> "SettingsModule", props |-> {"SettingsPage"}]
Number42 == [typeof |-> "number", id |-> "42"]

LoadedValues == {HomePage, ProfileModule, SettingsModule, Undefined, Number42}

RejectReasons == {"ChunkLoadError", "NetworkError"}

(***************************************************************************)
(* Tabs.                                                                   *)
(***************************************************************************)
Str_home == <<"h", "o", "m", "e">>
Str_tabs == <<"t", "a", "b", "s">>
Str_home_outline == Str_home \o <<"-", "o", "u", "t", "l", "i", "n", "e">>
Str_homeOutline == Str_home \o <<"O", "u", "t", "l", "i", "n", "e">>
Str_settings == <<"s", "e", "t", "t", "i", "n", "g", "s">>
Str_settings_outline == Str_settings \o <<"-", "o", "u", "t", "l", "i", "n", "e">>
Str_settingsOutline == Str_settings \o <<"O", "u", "t", "l", "i", "n", "e">>
Str_not_a_real_icon ==
  <<"n", "o", "t", "-", "a", "-", "r", "e", "a", "l", "-", "i", "c", "o", "n">>

Tab(name, iconName, urlPath, component) ==
  [name |-> name, label |-> name, iconName |-> iconName,
   urlPath |-> urlPath, component |-> component]

TabPool ==
  { Tab("home", Str_home_outline, TABS_PREFIX \o Str_home, HomePage),
    Tab("settings", Str_settings_outline, TABS_PREFIX \o Str_settings, loadSettings),
    Tab("nested", Str_not_a_real_icon,
        TABS_PREFIX \o <<"a">> \o TABS_PREFIX \o <<"b">>, loadProfile),
    Tab("inner", Str_homeOutline, <<"x">> \o TABS_PREFIX \o <<"y">>, plainObject),
    Tab("other", EmptyString, <<"/">> \o Str_home, markedObject),
    Tab("home", Str_home, TABS_PREFIX \o Str_home, loadSettings) }

RECURSIVE SeqsUpTo(_, _)
SeqsUpTo(S, n) ==
  IF n = 0 THEN {<< >>}
  ELSE LET shorter == SeqsUpTo(S, n - 1) IN
       shorter \cup {Append(q, x) : q \in shorter, x \in S}

TabLists == SeqsUpTo(TabPool, MaxTabs)

(***************************************************************************)
(* tab.interface.ts and route.utils.ts.                                    *)
(***************************************************************************)
\* A plausible slip: every function is taken for a loader.
isLazyComponentAnyFunction(component) == component.typeof = "function"

isLazyComponent(component) ==
  component.typeof = "function" /\ ~HasProperty(component, NG_COMP_DEF)

\* The arrow function createComponentRoute returns as loadComponent: a
\* closure over the loader.
LoadComponentClosure(component) ==
  [typeof |-> "function", id |-> "loadComponent", loader |-> component]

createComponentRoute(component) ==
  IF isLazyComponent(component)
  THEN [loadComponent |-> LoadComponentClosure(component)]
  ELSE [component |-> component]

\* A plausible slip: the children in reverse order.
RECURSIVE generateChildrenRoutesReversed(_)
generateChildrenRoutesReversed(tabs) ==
  IF tabs = << >> THEN << >>
  ELSE Append(generateChildrenRoutesReversed(Tail(tabs)),
              createComponentRoute(Head(tabs).component)
                @@ [path |-> replace(Head(tabs).urlPath, TABS_PREFIX, EmptyString)])

\* tabs.map(tab => ({ path: ..., ...createComponentRoute(tab.component) }))
generateChildrenRoutes(tabs) ==
  [i \in 1..Len(tabs) |->
     createComponentRoute(tabs[i].component)
       @@ [path |-> replace(tabs[i].urlPath, TABS_PREFIX, EmptyString)]]

TabBarComponent == [typeof |-> "function", id |-> "TabBarComponent", props |-> {NG_COMP_DEF}]

Redirect(target) ==
  [path |-> EmptyString, redirectTo |-> target, pathMatch |-> "full"]

\* The array literal generateRoutes returns, given tabs[0].
RouteTable(tabs, first) ==
  << [path |-> Str_tabs,
      component |-> TabBarComponent,
      data |-> [keys |-> {"tabs"}, tabs |-> [typeof |-> "object", elements |-> tabs]],
      children |->
        generateChildrenRoutes(tabs)
          \o << Redirect(replace(first.urlPath, TABS_PREFIX, EmptyString)) >>],
     Redirect(first.urlPath) >>

\* A plausible slip: the redirects aim at the last tab.
generateRoutesLastTab(tabs) ==
  IF IsUndefined(ElementAt(tabs, 0))
  THEN Thrown("TypeError")
  ELSE Returned(RouteTable(tabs, tabs[Len(tabs)]))

\* A plausible slip: tabs[0]?.urlPath, which yields undefined redirect
\* targets for an empty list instead of throwing.
generateRoutesOptionalChaining(tabs) ==
  IF IsUndefined(ElementAt(tabs, 0))
  THEN Returned(<< [path |-> Str_tabs,
                    component |-> TabBarComponent,
                    data |-> [keys |-> {"tabs"},
                              tabs |-> [typeof |-> "object", elements |-> tabs]],
                    children |-> << [path |-> EmptyString, redirectTo |-> Undefined,
                                     pathMatch |-> "full"] >>],
                   [path |-> EmptyString, redirectTo |-> Undefined,
                    pathMatch |-> "full"] >>)
  ELSE Returned(RouteTable(tabs, ElementAt(tabs, 0)))

\* A plausible slip: the root redirect aims at the stripped path too.
generateRoutesRootStripped(tabs) ==
  IF IsUndefined(ElementAt(tabs, 0))
  THEN Thrown("TypeError")
  ELSE Returned(<< RouteTable(tabs, ElementAt(tabs, 0))[1],
                   Redirect(replace(ElementAt(tabs, 0).urlPath, TABS_PREFIX, EmptyString)) >>)

\* tabs[0] is undefined for an empty array, and reading urlPath of undefined
\* throws a TypeError while the array literal is being built.
generateRoutes(tabs) ==
  IF IsUndefined(ElementAt(tabs, 0))
  THEN Thrown("TypeError")
  ELSE Returned(RouteTable(tabs, ElementAt(tabs, 0)))

(***************************************************************************)
(* Promises and the loadComponent closure.                                 *)
(***************************************************************************)
Fulfilled(v) == [state |-> "fulfilled", value |-> v]
Rejected(r) == [state |-> "rejected", reason |-> r]

\* What a loader's promise may settle to.
LoaderSettlements ==
  {Fulfilled(v) : v \in LoadedValues} \cup {Rejected(r) : r \in RejectReasons}

\* A plausible slip: the loaded value is passed on as it is.
unwrapDefaultNever(loaded) == Returned(loaded)

\* loaded => ('default' in loaded) ? loaded.default : loaded
\* The "in" operator throws a TypeError when loaded is a primitive.
unwrapDefault(loaded) ==
  IF ~IsObject(loaded)
  THEN Thrown("TypeError")
  ELSE IF HasProperty(loaded, "default")
       THEN Returned(loaded.default)
       ELSE Returned(loaded)

\* A plausible slip: a .catch that substitutes a fallback view.
thenUnwrapWithFallback(settlement) ==
  IF settlement.state = "rejected"
  THEN Fulfilled(HomePage)
  ELSE LET r == unwrapDefault(settlement.value) IN
       IF r.status = "thrown" THEN Rejected(r.error) ELSE Fulfilled(r.value)

\* component().then(loaded => ...): the promise loadComponent returns, given
\* what the loader's promise settled to. then() with no rejection handler
\* passes a rejection on; a callback that throws rejects with what it threw.
thenUnwrap(settlement) ==
  IF settlement.state = "rejected"
  THEN settlement
  ELSE LET r == unwrapDefault(settlement.value) IN
       IF r.status = "thrown" THEN Rejected(r.error) ELSE Fulfilled(r.value)

(***************************************************************************)
(* TabBarComponent.                                                        *)
(***************************************************************************)
ArrayOf(elements) == [typeof |-> "object", elements |-> elements]

EmptyArray == ArrayOf(<< >>)

\* route.snapshot.data: an object with or without a 'tabs' entry.
NoData == [keys |-> {}]
DataTabs(elements) == [keys |-> {"tabs"}, tabs |-> ArrayOf(elements)]

\* data[key]: undefined for a key the object does not hold.
DataLookup(data, key) == IF key \in data.keys THEN data[key] ELSE Undefined

\* A plausible slip: no default.
LogicalOrMissing(v, d) == v

\* v || d, for v an array (truthy) or undefined (falsy).
LogicalOr(v, d) == IF IsUndefined(v) THEN d ELSE v

\* import * as allIcons from 'ionicons/icons': the icon catalog, keyed in
\* camel case; every asset is a non-empty string.
IconKeys == {Str_home, Str_homeOutline, Str_settingsOutline}

allIcons == [k \in IconKeys |-> <<"s", "v", "g", ":">> \o k]

\* allIcons[name] is truthy.
IconFound(name) == name \in DOMAIN allIcons

WarnPrefix == <<"I", "c", "o", "n", " ", "n", "o", "t", " ", "f", "o", "u", "n", "d", ":", " ">>

EmptyObject == [k \in {} |-> EmptyString]

\* A plausible slip: the entry is keyed by the camel-cased name.
IconStepKeyedByCamelCase(st, tab) ==
  LET camelCaseName == camelCase(tab.iconName) IN
  IF IconFound(camelCaseName)
  THEN [acc |-> (camelCaseName :> allIcons[camelCaseName]) @@ st.acc,
        warnings |-> st.warnings]
  ELSE [acc |-> st.acc,
        warnings |-> Append(st.warnings, WarnPrefix \o tab.iconName)]

\* The reduce callback of initializeRequiredIcons; st.acc is the accumulator
\* and st.warnings the console.warn calls made so far.
IconStep(st, tab) ==
  LET camelCaseName == camelCase(tab.iconName) IN
  IF IconFound(camelCaseName)
  THEN [acc |-> (tab.iconName :> allIcons[camelCaseName]) @@ st.acc,
        warnings |-> st.warnings]
  ELSE [acc |-> st.acc,
        warnings |-> Append(st.warnings, WarnPrefix \o tab.iconName)]

RECURSIVE Reduce(_, _, _)
Reduce(elements, i, st) ==
  IF i > Len(elements) THEN st
  ELSE Reduce(elements, i + 1, IconStep(st, elements[i]))

\* this.tabs.reduce(...) then addIcons(requiredIcons): the argument of the
\* one addIcons call and the warnings; reduce of undefined throws.
initializeRequiredIcons(thisTabs) ==
  IF IsUndefined(thisTabs)
  THEN Thrown("TypeError")
  ELSE LET st == Reduce(thisTabs.elements, 1, [acc |-> EmptyObject, warnings |-> << >>]) IN
       Returned([addIcons |-> st.acc, warnings |-> st.warnings])

\* this.tabs = this.route.snapshot.data['tabs'] || [];
ngOnInitTabs(current, data) == LogicalOr(DataLookup(data, "tabs"), EmptyArray)

(***************************************************************************)
(* State.                                                                  *)
(***************************************************************************)
VARIABLES
  tabs,             \* the host application's tab list (APP_TABS)
  routes,           \* the outcome of generateRoutes(tabs), once called
  load,             \* the latest loadComponent invocation and its promise
  loaderCalls,      \* per loader: how often the loader function was called
  loadInvocations,  \* per loader: how often its loadComponent was invoked
  pc,               \* the tab bar: "none", "constructed", "initialized", "initError"
  compTabs,         \* TabBarComponent.tabs
  tabsInput,        \* what the template bound to [tabs], undefined when unbound
  routeData,        \* route.snapshot.data of the component's ActivatedRoute
  addIconsCalls,    \* the arguments of the addIcons calls made so far
  warnings,         \* the console.warn messages of each activation
  activations       \* how many tab bar instances were created

routeVars == <<routes, load, loaderCalls, loadInvocations>>
barVars == <<pc, compTabs, tabsInput, routeData, addIconsCalls, warnings, activations>>
vars == <<tabs, routes, load, loaderCalls, loadInvocations,
          pc, compTabs, tabsInput, routeData, addIconsCalls, warnings, activations>>

LoaderIds == {c.id : c \in Components}

Init ==
  /\ tabs \in TabLists
  /\ routes = [status |-> "notCalled"]
  /\ load = [state |-> "none"]
  /\ loaderCalls = [id \in LoaderIds |-> 0]
  /\ loadInvocations = [id \in LoaderIds |-> 0]
  /\ pc = "none"
  /\ compTabs = EmptyArray
  /\ tabsInput = Undefined
  /\ routeData = NoData
  /\ addIconsCalls = << >>
  /\ warnings = << >>
  /\ activations = 0

(***************************************************************************)
(* The host application and the router.                                    *)
(***************************************************************************)
\* export const routes: Routes = generateRoutes(APP_TABS);
GenerateRoutes ==
  /\ routes.status = "notCalled"
  /\ routes' = generateRoutes(tabs)
  /\ UNCHANGED <<tabs, load, loaderCalls, loadInvocations>>
  /\ UNCHANGED barVars

\* The children of the 'tabs' route that carry a loadComponent.
LazyChildren ==
  IF routes.status = "returned"
  THEN {i \in 1..Len(routes.value[1].children) :
          "loadComponent" \in DOMAIN routes.value[1].children[i]}
  ELSE {}

\* The router invokes child i's loadComponent: the closure calls the loader,
\* which either throws or returns a promise.
InvokeLoadComponent(i, throws) ==
  /\ i \in LazyChildren
  /\ load.state # "pending"
  /\ LET loader == routes.value[1].children[i].loadComponent.loader IN
     /\ loadInvocations[loader.id] < MaxLoads
     /\ loadInvocations' = [loadInvocations EXCEPT ![loader.id] = @ + 1]
     /\ loaderCalls' = [loaderCalls EXCEPT ![loader.id] = @ + 1]
     /\ load' = IF throws
                THEN [state |-> "thrown", child |-> i, error |-> "LoaderError"]
                ELSE [state |-> "pending", child |-> i]
  /\ UNCHANGED <<tabs, routes>>
  /\ UNCHANGED barVars

\* The loader's promise settles and the then() callback runs.
LoaderSettles(settlement) ==
  /\ load.state = "pending"
  /\ load' = [state |-> "settled", child |-> load.child,
              loader |-> settlement, result |-> thenUnwrap(settlement)]
  /\ UNCHANGED <<tabs, routes, loaderCalls, loadInvocations>>
  /\ UNCHANGED barVars

(***************************************************************************)
(* The tab bar's life cycle.                                               *)
(***************************************************************************)
\* The route data the new instance's ActivatedRoute carries: the 'tabs'
\* route's data when the router activates it, or a host route's data when
\* the component is used in a template.
RouteDataChoices ==
  {NoData, DataTabs(<< >>)}
    \cup (IF routes.status = "returned" THEN {routes.value[1].data} ELSE {})

CreateComponent(data) ==
  /\ pc = "none"
  /\ activations < MaxActivations
  /\ pc' = "constructed"
  /\ compTabs' = EmptyArray
  /\ tabsInput' = Undefined
  /\ routeData' = data
  /\ activations' = activations + 1
  /\ UNCHANGED <<tabs, addIconsCalls, warnings>>
  /\ UNCHANGED routeVars

\* Lists a template may bind to [tabs].
InputLists == {tabs} \cup {<<t>> : t \in {x \in TabPool : x.component = HomePage}}

\* [tabs]="APP_TABS": the framework sets the input before ngOnInit.
SetTabsInput(elements) ==
  /\ pc = "constructed"
  /\ IsUndefined(tabsInput)
  /\ tabsInput' = ArrayOf(elements)
  /\ compTabs' = ArrayOf(elements)
  /\ UNCHANGED <<tabs, pc, routeData, addIconsCalls, warnings, activations>>
  /\ UNCHANGED routeVars

NgOnInit ==
  /\ pc = "constructed"
  /\ LET thisTabs == ngOnInitTabs(compTabs, routeData)
         icons == initializeRequiredIcons(thisTabs)
     IN
     /\ compTabs' = thisTabs
     /\ IF icons.status = "thrown"
        THEN /\ pc' = "initError"
             /\ UNCHANGED <<addIconsCalls, warnings>>
        ELSE /\ pc' = "initialized"
             /\ addIconsCalls' = Append(addIconsCalls, icons.value.addIcons)
             /\ warnings' = Append(warnings, icons.value.warnings)
  /\ UNCHANGED <<tabs, tabsInput, routeData, activations>>
  /\ UNCHANGED routeVars

\* The router leaves the 'tabs' route: the instance is dropped.
DestroyComponent ==
  /\ pc = "initialized"
  /\ pc' = "none"
  /\ compTabs' = EmptyArray
  /\ tabsInput' = Undefined
  /\ routeData' = NoData
  /\ UNCHANGED <<tabs, addIconsCalls, warnings, activations>>
  /\ UNCHANGED routeVars

(***************************************************************************)
(* Specifications.                                                         *)
(***************************************************************************)
NextRoutes ==
  \/ GenerateRoutes
  \/ \E i \in 1..(MaxTabs + 1), throws \in BOOLEAN : InvokeLoadComponent(i, throws)
  \/ \E settlement \in LoaderSettlements : LoaderSettles(settlement)

NextTabBar ==
  \/ GenerateRoutes
  \/ \E data \in RouteDataChoices : CreateComponent(data)
  \/ \E elements \in InputLists : SetTabsInput(elements)
  \/ NgOnInit
  \/ DestroyComponent

Next == NextRoutes \/ NextTabBar

\* Route generation and lazy loading.
SpecRoutes == Init /\ [][NextRoutes]_vars

\* The tab bar component.
SpecTabBar == Init /\ [][NextTabBar]_vars

Spec == Init /\ [][Next]_vars

(***************************************************************************)
(* Properties.                                                             *)
(***************************************************************************)
\* The children of the generated 'tabs' route.
Children == routes.value[1].children

StartsWithPrefix(s) == OccursAt(s, TABS_PREFIX, 1)

ContainsPrefix(s) == \E i \in 1..Len(s) : OccursAt(s, TABS_PREFIX, i)

\* The view reference child route r binds, directly or through its loader.
BoundReference(r) ==
  IF "component" \in DOMAIN r THEN r.component ELSE r.loadComponent.loader

\* C1: for a non-empty tab list, generateRoutes returns a 'tabs' parent whose
\* children are one tab route per descriptor, in the list's order (the i-th
\* binds the i-th descriptor's view reference and has its urlPath without the
\* leading '/tabs/'), followed by exactly one redirect child with path '';
\* nothing is sorted, dropped or de-duplicated.
C1_ChildrenInInputOrder ==
  (tabs # << >> /\ routes.status # "notCalled") =>
    /\ routes.status = "returned"
    /\ routes.value[1].path = Str_tabs
    /\ Len(Children) = Len(tabs) + 1
    /\ \A i \in 1..Len(tabs) :
         /\ "redirectTo" \notin DOMAIN Children[i]
         /\ BoundReference(Children[i]) = tabs[i].component
         /\ StartsWithPrefix(tabs[i].urlPath)
              => TABS_PREFIX \o Children[i].path = tabs[i].urlPath
         /\ ~ContainsPrefix(tabs[i].urlPath)
              => Children[i].path = tabs[i].urlPath
    /\ "redirectTo" \in DOMAIN Children[Len(tabs) + 1]
    /\ Children[Len(tabs) + 1].path = EmptyString

\* Routes were generated for two descriptors with the same name and urlPath
\* but different view references: both are kept, in order.
C1_Witness ==
  /\ routes.status = "returned"
  /\ Len(tabs) = 2
  /\ tabs[1].name = tabs[2].name
  /\ tabs[1].urlPath = tabs[2].urlPath
  /\ tabs[1].component # tabs[2].component
  /\ Len(Children) = 3
  /\ Children[1].path = Children[2].path
  /\ BoundReference(Children[1]) = tabs[1].component
  /\ BoundReference(Children[2]) = tabs[2].component

\* C2: for a non-empty tab list the last child is a redirect (path '', full
\* match) to the first descriptor's urlPath without its '/tabs/' prefix, and
\* the second root route is a redirect (path '', full match) to the first
\* descriptor's urlPath as it is; the root array has length 2, and for a
\* single descriptor the child redirect aims at that descriptor's child route.
C2_DefaultAndRootRedirect ==
  (tabs # << >> /\ routes.status # "notCalled") =>
    /\ routes.status = "returned"
    /\ Len(routes.value) = 2
    /\ LET dflt == Children[Len(Children)]
           root == routes.value[2]
       IN
       /\ DOMAIN dflt = {"path", "redirectTo", "pathMatch"}
       /\ dflt.path = EmptyString
       /\ dflt.pathMatch = "full"
       /\ StartsWithPrefix(tabs[1].urlPath)
            => TABS_PREFIX \o dflt.redirectTo = tabs[1].urlPath
       /\ ~ContainsPrefix(tabs[1].urlPath) => dflt.redirectTo = tabs[1].urlPath
       /\ dflt.redirectTo = Children[1].path
       /\ DOMAIN root = {"path", "redirectTo", "pathMatch"}
       /\ root.path = EmptyString
       /\ root.pathMatch = "full"
       /\ root.redirectTo = tabs[1].urlPath
       /\ Len(tabs) = 1 => Len(Children) = 2

\* Routes were generated for two descriptors with different paths, the first
\* under '/tabs/': the redirects aim at the first.
C2_Witness ==
  /\ routes.status = "returned"
  /\ Len(tabs) = 2
  /\ tabs[1].urlPath # tabs[2].urlPath
  /\ tabs[1].urlPath = TABS_PREFIX \o Str_home
  /\ Children[3].redirectTo = Str_home
  /\ routes.value[2].redirectTo = TABS_PREFIX \o Str_home

UnwrappedValue(v) ==
  IF IsObject(v) /\ HasProperty(v, "default") THEN v.default ELSE v

\* C4 as stated: whatever the loader resolves to, loadComponent resolves to
\* its 'default' property when it has one and to the value itself otherwise.
C4_ResolvesForEveryValue ==
  (load.state = "settled" /\ load.loader.state = "fulfilled") =>
    load.result = Fulfilled(UnwrappedValue(load.loader.value))

\* C4, amended: when the loader resolves to an object or a function,
\* loadComponent resolves to its 'default' property when it has one and to
\* the value itself otherwise; when it resolves to a primitive, the 'in' test
\* throws and loadComponent rejects with a TypeError.
C4_ResolvesForObjects ==
  (load.state = "settled" /\ load.loader.state = "fulfilled") =>
    IF IsObject(load.loader.value)
    THEN load.result = Fulfilled(UnwrappedValue(load.loader.value))
    ELSE load.result = Rejected("TypeError")

\* A loader resolved to a module object and loadComponent to its default export.
C4_Witness ==
  /\ load.state = "settled"
  /\ load.loader = Fulfilled(ProfileModule)
  /\ load.result = Fulfilled(ProfilePage)

\* C5: a rejection of the loader is the rejection of loadComponent, with the
\* same reason; every loadComponent invocation calls the loader once, and the
\* loader is called at no other time (not when the routes are built).
C5_RejectionPassedOn ==
  /\ \A id \in LoaderIds : loaderCalls[id] = loadInvocations[id]
  /\ (load.state = "settled" /\ load.loader.state = "rejected") =>
       (load.result.state = "rejected" /\ load.result.reason = load.loader.reason)
  /\ (routes.status # "returned") => \A id \in LoaderIds : loaderCalls[id] = 0

\* A loader rejected after its one call.
C5_Witness ==
  /\ load.state = "settled"
  /\ load.loader = Rejected("NetworkError")
  /\ load.result = Rejected("NetworkError")
  /\ loaderCalls["loadSettings"] = 1
  /\ loadInvocations["loadSettings"] = 1

\* What ngOnInit is to leave in this.tabs, given the route data.
ListInContext(data) == IF "tabs" \in data.keys THEN data.tabs ELSE EmptyArray

\* C6: ngOnInit ends without an error, leaves the route data as it was, and
\* leaves in this.tabs the list of the route data's 'tabs' entry when there
\* is one and the empty list when there is none.
C6_TabsFromRoutingContext ==
  [][(pc = "constructed" /\ pc' # "constructed") =>
       /\ pc' = "initialized"
       /\ routeData' = routeData
       /\ compTabs' = ListInContext(routeData)]_vars

\* A tab bar was initialized under a route whose data has no 'tabs' entry.
C6_Witness ==
  /\ pc = "initialized"
  /\ routeData = NoData
  /\ compTabs = EmptyArray
  /\ Len(addIconsCalls) = 1

\* The positions of the descriptors whose icon the catalog lacks.
Misses(elements) ==
  {i \in 1..Len(elements) : ~IconFound(camelCase(elements[i].iconName))}

\* C7: every activation makes one addIcons call; its argument has, for each
\* descriptor whose camel-cased iconName is in the catalog, the catalog's
\* asset under the descriptor's own iconName, and nothing else; each miss
\* gives one warning naming the icon, and no exception.
C7_IconsRegisteredOncePerActivation ==
  /\ pc # "initError"
  /\ Len(addIconsCalls) = (IF pc = "constructed" THEN activations - 1 ELSE activations)
  /\ Len(warnings) = Len(addIconsCalls)
  /\ pc = "initialized" =>
       LET elements == compTabs.elements
           call == addIconsCalls[Len(addIconsCalls)]
           warned == warnings[Len(warnings)]
       IN
       /\ DOMAIN call =
            {elements[i].iconName : i \in (1..Len(elements)) \ Misses(elements)}
       /\ \A name \in DOMAIN call : call[name] = allIcons[camelCase(name)]
       /\ Len(warned) = Cardinality(Misses(elements))
       /\ \A i \in Misses(elements) :
            \E j \in 1..Len(warned) : warned[j] = WarnPrefix \o elements[i].iconName

\* A tab bar was initialized with 'home-outline' (in the catalog as
\* homeOutline) and 'not-a-real-icon' (not in it).
C7_Witness ==
  /\ pc = "initialized"
  /\ Len(compTabs.elements) = 2
  /\ compTabs.elements[1].iconName = Str_not_a_real_icon
  /\ compTabs.elements[2].iconName = Str_home_outline
  /\ addIconsCalls[Len(addIconsCalls)]
       = (Str_home_outline :> (<<"s", "v", "g", ":">> \o Str_homeOutline))
  /\ warnings[Len(warnings)] = << WarnPrefix \o Str_not_a_real_icon >>

\* C8: a list bound to the [tabs] input is the list the component holds
\* after ngOnInit.
C8_InputKeptAfterInit ==
  (pc = "initialized" /\ ~IsUndefined(tabsInput)) => compTabs = tabsInput

\* C9 as stated: every occurrence of '/tabs/' is removed from a child's path.
C9_EveryOccurrenceRemoved ==
  routes.status = "returned" =>
    \A i \in 1..Len(tabs) :
      Children[i].path = replaceAllOccurrences(tabs[i].urlPath, TABS_PREFIX, EmptyString)

\* path is url without its first occurrence of '/tabs/', or url itself when
\* there is none.
FirstOccurrenceRemoved(url, path) ==
  IF ~ContainsPrefix(url)
  THEN path = url
  ELSE \E i \in 1..Len(url) :
         /\ OccursAt(url, TABS_PREFIX, i)
         /\ \A j \in 1..(i - 1) : ~OccursAt(url, TABS_PREFIX, j)
         /\ Len(path) = Len(url) - Len(TABS_PREFIX)
         /\ \A k \in 1..Len(path) :
              path[k] = IF k < i THEN url[k] ELSE url[k + Len(TABS_PREFIX)]

\* C9, amended: the first occurrence of '/tabs/' is removed wherever it is,
\* at the start or not, and only the first: '/tabs/a/tabs/b' gives
\* 'a/tabs/b'; a path without the substring is left as it is.
C9_FirstOccurrenceRemoved ==
  routes.status = "returned" =>
    /\ \A i \in 1..Len(tabs) :
         /\ FirstOccurrenceRemoved(tabs[i].urlPath, Children[i].path)
         /\ tabs[i].urlPath = TABS_PREFIX \o <<"a">> \o TABS_PREFIX \o <<"b">>
              => Children[i].path = <<"a">> \o TABS_PREFIX \o <<"b">>
         /\ tabs[i].urlPath = <<"x">> \o TABS_PREFIX \o <<"y">>
              => Children[i].path = <<"x", "y">>
    /\ FirstOccurrenceRemoved(tabs[1].urlPath, Children[Len(Children)].redirectTo)

\* Routes were generated for '/tabs/a/tabs/b' and for 'x/tabs/y'.
C9_Witness ==
  /\ routes.status = "returned"
  /\ Len(tabs) = 2
  /\ tabs[1].urlPath = TABS_PREFIX \o <<"a">> \o TABS_PREFIX \o <<"b">>
  /\ tabs[2].urlPath = <<"x">> \o TABS_PREFIX \o <<"y">>
  /\ Children[1].path = <<"a">> \o TABS_PREFIX \o <<"b">>
  /\ Children[2].path = <<"x", "y">>

\* C10: generateRoutes of an empty list throws during the call: no route
\* table is returned, and nothing is left to fail later (no loader is ever
\* called, no loadComponent is ever pending).
C10_EmptyListThrowsInTheCall ==
  (tabs = << >> /\ routes.status # "notCalled") =>
    /\ routes.status = "thrown"
    /\ routes.error = "TypeError"
    /\ load.state = "none"
    /\ \A id \in LoaderIds : loaderCalls[id] = 0 /\ loadInvocations[id] = 0

\* generateRoutes was called with an empty list and threw.
C10_Witness ==
  /\ tabs = << >>
  /\ routes = Thrown("TypeError")

\* C11: when the first urlPath begins with '/tabs/', the root redirect target
\* is '/tabs/' followed by the first child's path, which is also the default
\* child redirect's target, so the root redirect lands on a generated child;
\* when it does not begin with '/tabs/', generateRoutes still returns and
\* the root redirect target is not '/tabs/' followed by the first child's path.
C11_RootRedirectLandsOnFirstChild ==
  (tabs # << >> /\ routes.status # "notCalled") =>
    /\ routes.status = "returned"
    /\ LET root == routes.value[2].redirectTo
           dflt == Children[Len(Children)].redirectTo
           landing == TABS_PREFIX \o Children[1].path
       IN
       /\ StartsWithPrefix(tabs[1].urlPath) =>
            (root = landing /\ root = TABS_PREFIX \o dflt)
       /\ ~StartsWithPrefix(tabs[1].urlPath) =>
            (root # landing /\ root # TABS_PREFIX \o dflt)

\* Routes were generated for a first descriptor at '/tabs/a/tabs/b': the root
\* redirect is '/tabs/' followed by the first child's path 'a/tabs/b'.
C11_Witness ==
  /\ routes.status = "returned"
  /\ tabs[1].urlPath = TABS_PREFIX \o <<"a">> \o TABS_PREFIX \o <<"b">>
  /\ Children[1].path = <<"a">> \o TABS_PREFIX \o <<"b">>
  /\ routes.value[2].redirectTo = TABS_PREFIX \o Children[1].path
  /\ Children[Len(Children)].redirectTo = Children[1].path

=============================================================================
